---- MODULE Spec2Model ----
(***************************************************************************)
(* Model of the blast simulation page: App (src/unnamed/part_001),         *)
(* Timeline (src/src/components/Timeline.jsx) and the first BlastSim       *)
(* component of src/src/components/BlastSim.jsx (lines 1-454): BlastSim,   *)
(* ErrorBoundary, Scene, Particles, Debris and Shockwave.                  *)
(*                                                                         *)
(* Numbers are fixed point with three decimals: the integer 1000 stands    *)
(* for 1.0.  Time is in milliseconds, so a frame delta of 1000 is the      *)
(* delta 1.0 (seconds) that useFrame hands to its callbacks.  Products     *)
(* and quotients round to the nearest thousandth, half away from zero.     *)
(***************************************************************************)
EXTENDS Integers, Sequences, FiniteSets, TLC

SCALE == 10 * 100

\* ---------------------------------------------------------------- bounds
\* Frames rendered in one run.
MaxFrames == 2
\* Prop and control changes (stage prop, Leva panel) in one run.
MaxChanges == 1
\* Particles kept of a preset's count (the presets hold 1400..3400).
MaxCount == 1

\* Frame deltas in milliseconds: a repeated timestamp, one second, and a
\* long frame after the tab was hidden.
Deltas == {0, 1000, 4000}

\* Stage props a parent may pass: the six stages and one index on either side.
StageProps == -1 .. 6

\* Leva panel values (energyScale 0.25..2.0, dragOffset -0.02..0.05).
EnergyScales == {500, 1000}
DragOffsets == {0, 50}

\* ------------------------------------------------------------ arithmetic
Abs(a) == IF a < 0 THEN -a ELSE a
Min(a, b) == IF a < b THEN a ELSE b
Max(a, b) == IF a > b THEN a ELSE b

\* a / b rounded to the nearest integer, half away from zero (b > 0).
Div(a, b) == IF a >= 0 THEN (2 * a + b) \div (2 * b)
             ELSE -((2 * (-a) + b) \div (2 * b))

\* The product of two fixed-point numbers.
Mul(a, b) == Div(a * b, SCALE)

RECURSIVE SqrtIter(_, _, _)
SqrtIter(n, lo, hi) ==
    IF lo >= hi THEN lo
    ELSE LET mid == (lo + hi + 1) \div 2
         IN  IF mid * mid <= n THEN SqrtIter(n, mid, hi)
             ELSE SqrtIter(n, lo, mid - 1)

\* Math.sqrt on a non-negative integer, rounded down.
ISqrt(n) == SqrtIter(n, 0, 46340)

\* THREE.Vector3.length() of a fixed-point vector.
Length(v) == ISqrt(v[1] * v[1] + v[2] * v[2] + v[3] * v[3])

\* THREE.Vector3.normalize(): divideScalar(length() || 1).
Normalize(v) ==
    LET len == Length(v)
    IN  IF len = 0 THEN v
        ELSE << Div(v[1] * SCALE, len), Div(v[2] * SCALE, len), Div(v[3] * SCALE, len) >>

VAdd(a, b) == << a[1] + b[1], a[2] + b[2], a[3] + b[3] >>
VScale(a, k) == << Mul(a[1], k), Mul(a[2], k), Mul(a[3], k) >>

\* THREE.MathUtils.clamp
Clamp(x, lo, hi) == Max(lo, Min(hi, x))

\* ------------------------------------------------------------ the presets
\* STAGE_PRESETS, indexed 0..5; colours are the 8-bit channels of the hex
\* strings (three.js's colour-space handling is not part of this model).
STAGE_PRESETS == [ k \in 0 .. 5 |->
    CASE k = 0 -> [ blastEnergy |-> 2000, drag |-> 35, buoyancy |-> 600,
                    anisotropyUp |-> 200, anisotropyXZ |-> 0, wind |-> << 400, 0, 50 >>,
                    thermalDecay |-> 200, verticalBias |-> 200, count |-> 1400, heat |-> 400,
                    colors |-> << << 148, 163, 184 >>, << 203, 213, 225 >> >> ]
      [] k = 1 -> [ blastEnergy |-> 4000, drag |-> 30, buoyancy |-> 900,
                    anisotropyUp |-> 400, anisotropyXZ |-> 100, wind |-> << 500, 0, 80 >>,
                    thermalDecay |-> 250, verticalBias |-> 350, count |-> 1700, heat |-> 700,
                    colors |-> << << 245, 158, 11 >>, << 249, 115, 22 >> >> ]
      [] k = 2 -> [ blastEnergy |-> 10000, drag |-> 28, buoyancy |-> 1200,
                    anisotropyUp |-> 700, anisotropyXZ |-> 200, wind |-> << 600, 0, 100 >>,
                    thermalDecay |-> 350, verticalBias |-> 550, count |-> 2400, heat |-> 1000,
                    colors |-> << << 251, 191, 36 >>, << 251, 113, 133 >> >> ]
      [] k = 3 -> [ blastEnergy |-> 18000, drag |-> 30, buoyancy |-> 1600,
                    anisotropyUp |-> 1000, anisotropyXZ |-> 150, wind |-> << 700, 0, 120 >>,
                    thermalDecay |-> 450, verticalBias |-> 900, count |-> 3400, heat |-> 1300,
                    colors |-> << << 255, 209, 102 >>, << 255, 107, 0 >> >> ]
      [] k = 4 -> [ blastEnergy |-> 16000, drag |-> 32, buoyancy |-> 1000,
                    anisotropyUp |-> 400, anisotropyXZ |-> 1000, wind |-> << 800, 0, 150 >>,
                    thermalDecay |-> 400, verticalBias |-> 350, count |-> 3200, heat |-> 1100,
                    colors |-> << << 156, 163, 175 >>, << 229, 231, 235 >> >> ]
      [] OTHER -> [ blastEnergy |-> 7000, drag |-> 40, buoyancy |-> 1400,
                    anisotropyUp |-> 850, anisotropyXZ |-> 250, wind |-> << 1000, 0, 200 >>,
                    thermalDecay |-> 150, verticalBias |-> 650, count |-> 2800, heat |-> 900,
                    colors |-> << << 139, 92, 246 >>, << 148, 163, 184 >> >> ] ]

\* Mutant: the index wrapped around the table instead of clamped to it.
PresetOfWrapped(s) == STAGE_PRESETS[s % 6]

\* STAGE_PRESETS[Math.min(STAGE_PRESETS.length - 1, Math.max(0, stage))]
PresetOf(s) == STAGE_PRESETS[Min(5, Max(0, s))]

\* -------------------------------------------------------------- the state
VARIABLES
    env,            \* the browser: what supportsWebGL's calls find
    mounted,        \* BlastSim has been rendered
    stage,          \* BlastSim's stage prop, handed on to Scene
    webglOk,        \* BlastSim's useState(true)
    explodeTick,    \* BlastSim's useState(0)
    probePending,   \* BlastSim's mount effect has not run yet
    canvasRendered, \* the last render of BlastSim returned the Canvas branch
    hasError,       \* state.hasError of the mounted ErrorBoundary
    sceneMounted,   \* Scene and its children are mounted inside the Canvas
    energyScale,    \* Leva control
    dragOffset,     \* Leva control
    pendingEffects, \* passive effects of the last commit inside the Canvas
    shockMounted,   \* a Shockwave is mounted
    triggerKey,     \* the Shockwave's triggerKey prop
    t0,             \* the Shockwave's useState(0)
    ringScale,      \* ringRef.current.scale.x
    opacity,        \* materialRef.current.opacity
    shockFrame,     \* << t0 >> as the ring's last frame read it, NoKey before one
    positions, velocities, temperatures, colors, life, size,  \* Particles' arrays
    debrisPositions,  \* Debris' positions, one Vector3 per body
    debrisVelocities, \* Debris' velocities
    debrisUp,       \* up of the last run of Debris' seeding effect, 0 before it
    debrisFrame,    \* per body, what the last frame's ground branch did
    now,            \* performance.now(), in ms
    frames,         \* frames rendered so far
    tock,           \* flips with every frame the render loop runs
    changes,        \* prop and control changes so far
    lastFrame,      \* per particle, what the last frame's branches did
    lastJump        \* << idx >> of the last handleJump(idx) call, or NoJump

vars == << env, mounted, stage, webglOk, explodeTick, probePending, canvasRendered,
           hasError, sceneMounted, energyScale, dragOffset, pendingEffects, shockMounted,
           triggerKey, t0, ringScale, opacity, shockFrame, positions, velocities, temperatures,
           colors, life, size, debrisPositions, debrisVelocities, debrisUp,
           debrisFrame, now, frames, tock, changes, lastFrame, lastJump >>

NoJump == << >>
NoKey == << >>

\* ------------------------------------------------------------- Particles
\* g of Particles.useFrame.
G == 9810
\* The particles of a run: the preset's count, capped.
ModelCount(c) == Min(c, MaxCount)

\* The props Scene hands to Particles.
ParticleProps(s, eScale, dOffset) ==
    LET preset == PresetOf(s)
    IN  [ stage |-> s,
          count |-> ModelCount(preset.count),
          blastEnergy |-> Mul(preset.blastEnergy, eScale),
          drag |-> Max(0, preset.drag + dOffset),
          wind |-> preset.wind,
          buoyancy |-> preset.buoyancy,
          anisotropyUp |-> preset.anisotropyUp,
          anisotropyXZ |-> preset.anisotropyXZ,
          verticalBias |-> preset.verticalBias,
          thermalDecay |-> preset.thermalDecay,
          colorsPair |-> preset.colors ]

\* new Float32Array(n): n zeros, indexed from 0.
Float32Array(n) == [ k \in 0 .. n - 1 |-> 0 ]

\* The arrays of Particles; hit, vyPre and respawned record, per particle, which
\* branches of the last frame ran and velocity.y as the ground branch found it.
Allocate(count) ==
    [ positions |-> Float32Array(count * 3),
      velocities |-> Float32Array(count * 3),
      temperatures |-> Float32Array(count),
      colors |-> Float32Array(count * 3),
      life |-> Float32Array(count),
      size |-> Float32Array(count),
      hit |-> [ k \in 0 .. count - 1 |-> FALSE ],
      vyPre |-> Float32Array(count),
      respawned |-> [ k \in 0 .. count - 1 |-> FALSE ] ]

\* What Math.random() and randomDirection() return for one particle of reinit.
ReinitSamples ==
    { [ r |-> 0, dir |-> << 0, 1000, 0 >>, xa |-> 500, xb |-> 500, base |-> 0, t |-> 0, sz |-> 0 ],
      [ r |-> 999, dir |-> << 600, -800, 0 >>, xa |-> 999, xb |-> 0, base |-> 999, t |-> 999, sz |-> 999 ] }

\* What Math.random() returns for one respawn.
RespawnSamples ==
    { [ r |-> 0, a |-> 500, b |-> 999, c |-> 500, s |-> 0 ],
      [ r |-> 999, a |-> 0, b |-> 0, c |-> 999, s |-> 999 ] }

\* color1.clone().lerp(color2, t)
Lerp(c1, c2, t) == << c1[1] + Mul(c2[1] - c1[1], t),
                      c1[2] + Mul(c2[2] - c1[2], t),
                      c1[3] + Mul(c2[3] - c1[3], t) >>

\* One iteration of reinit's loop.
ReinitAt(st, i, props, s) ==
    LET i3 == i * 3
        r == Mul(s.r, 250)
        upBias == VScale(<< 0, SCALE, 0 >>, props.anisotropyUp)
        xzDir == VScale(Normalize(<< s.xa - 500, 0, s.xb - 500 >>), props.anisotropyXZ)
        dir == Normalize(VAdd(VAdd(s.dir, upBias), xzDir))
        base == 600 + Mul(s.base, 600)
        v == Div(Mul(props.blastEnergy, base) * SCALE, SCALE + r)
        c == Lerp(props.colorsPair[1], props.colorsPair[2], s.t)
    IN  [ st EXCEPT
            !.positions[i3] = Mul(dir[1], r),
            !.positions[i3 + 1] = 500 + Mul(Abs(dir[2]), r),
            !.positions[i3 + 2] = Mul(dir[3], r),
            !.velocities[i3] = Mul(dir[1], v),
            !.velocities[i3 + 1] =
                Mul(Mul(props.verticalBias, Abs(dir[2]))
                    + Mul(SCALE - props.verticalBias, dir[2]), v),
            !.velocities[i3 + 2] = Mul(dir[3], v),
            !.colors[i3] = c[1],
            !.colors[i3 + 1] = c[2],
            !.colors[i3 + 2] = c[3],
            !.temperatures[i] = SCALE,
            !.life[i] = SCALE,
            !.size[i] = 20000 + Mul(s.sz, 25000),
            !.hit[i] = FALSE,
            !.vyPre[i] = 0,
            !.respawned[i] = FALSE ]

RECURSIVE ReinitLoop(_, _, _, _)
ReinitLoop(st, i, props, pick) ==
    IF i >= props.count THEN st
    ELSE ReinitLoop(ReinitAt(st, i, props, pick[i]), i + 1, props, pick)

\* reinit(): the loop over all count particles.
reinit(st, props, pick) == ReinitLoop(st, 0, props, pick)

\* The dependency list of the useMemo that calls reinit.
ReinitDeps(props) ==
    << props.count, props.blastEnergy, props.anisotropyUp, props.anisotropyXZ,
       props.verticalBias, props.colorsPair, props.stage >>

\* Mutant: reinit on a change of any prop, drag and wind included.
ReinitDueOnAnyProp(old, new) == old # new

\* Mutant: reinit tied to the dependency list of the array allocations, [count].
ReinitDueOnCount(old, new) == old.count # new.count

\* Whether a render with props new, after one with props old, calls reinit.
ReinitDue(old, new) == ReinitDeps(old) # ReinitDeps(new)

\* Mutant: the decay without its Math.max(0, ...) clamp.
CoolTemperatureUnclamped(t, thermalDecay, delta) == t - Mul(thermalDecay, delta)

\* temperatures[i] = Math.max(0, temperatures[i] - thermalDecay * delta)
CoolTemperature(t, thermalDecay, delta) == Max(0, t - Mul(thermalDecay, delta))

\* life[i] = Math.max(0, life[i] - (0.12 + thermalDecay * 0.25) * delta)
AgeLife(l, thermalDecay, delta) == Max(0, l - Mul(120 + Mul(thermalDecay, 250), delta))

\* Mutant: a bounce that leaves the temperature as it was.
GroundCollisionKeepsHeat(p) ==
    [ p EXCEPT !.hit = TRUE,
               !.vyPre = p.vy,
               !.y = 0,
               !.vy = Mul(@, -120),
               !.vx = Mul(@, 500),
               !.vz = Mul(@, 500) ]

\* Mutant: the bounce without the clamp of position.y to the plane.
GroundCollisionUnclamped(p) ==
    [ p EXCEPT !.hit = TRUE,
               !.vyPre = p.vy,
               !.vy = Mul(@, -120),
               !.vx = Mul(@, 500),
               !.vz = Mul(@, 500),
               !.temp = Mul(@, 700) ]

\* The ground branch, on a particle p = [x, y, z, vx, vy, vz, temp, ...]:
\* clamp to the plane, damped bounce, deposit.
GroundCollision(p) ==
    [ p EXCEPT !.hit = TRUE,
               !.vyPre = p.vy,
               !.y = 0,
               !.vy = Mul(@, -120),
               !.vx = Mul(@, 500),
               !.vz = Mul(@, 500),
               !.temp = Mul(@, 700) ]

\* Mutant: a respawn that seeds everything but life.
RespawnKeepsDead(p, blastEnergy, s) ==
    LET r == Mul(s.r, 200)
        dir == Normalize(<< s.a - 500, s.b, s.c - 500 >>)
        v == Mul(blastEnergy, 300 + Mul(s.s, 600))
    IN  [ p EXCEPT !.respawned = TRUE,
                   !.x = Mul(dir[1], r),
                   !.y = 500 + Mul(Abs(dir[2]), r),
                   !.z = Mul(dir[3], r),
                   !.vx = Mul(dir[1], v),
                   !.vy = Mul(Abs(dir[2]), v),
                   !.vz = Mul(dir[3], v),
                   !.temp = 800 ]

\* Mutant: a respawn that seeds temperature as construction does.
RespawnHot(p, blastEnergy, s) ==
    LET r == Mul(s.r, 200)
        dir == Normalize(<< s.a - 500, s.b, s.c - 500 >>)
        v == Mul(blastEnergy, 300 + Mul(s.s, 600))
    IN  [ p EXCEPT !.respawned = TRUE,
                   !.x = Mul(dir[1], r),
                   !.y = 500 + Mul(Abs(dir[2]), r),
                   !.z = Mul(dir[3], r),
                   !.vx = Mul(dir[1], v),
                   !.vy = Mul(Abs(dir[2]), v),
                   !.vz = Mul(dir[3], v),
                   !.life = SCALE,
                   !.temp = SCALE ]

\* The respawn branch: the dead particle is seeded again in its own slot.
Respawn(p, blastEnergy, s) ==
    LET r == Mul(s.r, 200)
        dir == Normalize(<< s.a - 500, s.b, s.c - 500 >>)
        v == Mul(blastEnergy, 300 + Mul(s.s, 600))
    IN  [ p EXCEPT !.respawned = TRUE,
                   !.x = Mul(dir[1], r),
                   !.y = 500 + Mul(Abs(dir[2]), r),
                   !.z = Mul(dir[3], r),
                   !.vx = Mul(dir[1], v),
                   !.vy = Mul(Abs(dir[2]), v),
                   !.vz = Mul(dir[3], v),
                   !.life = SCALE,
                   !.temp = 800 ]

\* Slot i of the arrays, as the loop body reads it.
Load(st, i) ==
    [ x |-> st.positions[i * 3], y |-> st.positions[i * 3 + 1], z |-> st.positions[i * 3 + 2],
      vx |-> st.velocities[i * 3], vy |-> st.velocities[i * 3 + 1],
      vz |-> st.velocities[i * 3 + 2],
      temp |-> st.temperatures[i], life |-> st.life[i],
      hit |-> FALSE, vyPre |-> 0, respawned |-> FALSE ]

\* f with x added as a new last element.
Push(f, x) == [ k \in 0 .. Cardinality(DOMAIN f) |-> IF k \in DOMAIN f THEN f[k] ELSE x ]

\* Mutant: a respawned particle is added to the arrays and the dead one is kept.
StoreOrPush(st, i, p) ==
    IF p.respawned
    THEN [ st EXCEPT !.positions = Push(Push(Push(@, p.x), p.y), p.z),
                     !.velocities = Push(Push(Push(@, p.vx), p.vy), p.vz),
                     !.temperatures = Push(@, p.temp),
                     !.life = Push(@, p.life),
                     !.colors = Push(Push(Push(@, 0), 0), 0),
                     !.size = Push(@, 0),
                     !.hit = Push(@, p.hit),
                     !.vyPre = Push(@, p.vyPre),
                     !.respawned = Push(@, p.respawned) ]
    ELSE [ st EXCEPT !.positions[i * 3] = p.x,
                     !.positions[i * 3 + 1] = p.y,
                     !.positions[i * 3 + 2] = p.z,
                     !.velocities[i * 3] = p.vx,
                     !.velocities[i * 3 + 1] = p.vy,
                     !.velocities[i * 3 + 2] = p.vz,
                     !.temperatures[i] = p.temp,
                     !.life[i] = p.life,
                     !.hit[i] = p.hit,
                     !.vyPre[i] = p.vyPre,
                     !.respawned[i] = p.respawned ]

\* The loop body's writes to slot i.
Store(st, i, p) ==
    [ st EXCEPT !.positions[i * 3] = p.x,
                !.positions[i * 3 + 1] = p.y,
                !.positions[i * 3 + 2] = p.z,
                !.velocities[i * 3] = p.vx,
                !.velocities[i * 3 + 1] = p.vy,
                !.velocities[i * 3 + 2] = p.vz,
                !.temperatures[i] = p.temp,
                !.life[i] = p.life,
                !.hit[i] = p.hit,
                !.vyPre[i] = p.vyPre,
                !.respawned[i] = p.respawned ]

\* One iteration of the loop of Particles' useFrame callback, on the particle.
AdvanceParticle(p0, props, delta, s) ==
    LET dragFactor == Max(0, SCALE - props.drag)
        \* Gravity
        p1 == [ p0 EXCEPT !.vy = @ - Mul(Mul(G, delta), 250) ]
        \* Drag
        p2 == [ p1 EXCEPT !.vx = Mul(@, dragFactor),
                          !.vy = Mul(@, dragFactor),
                          !.vz = Mul(@, dragFactor) ]
        \* Thermal buoyancy
        p3 == IF p2.y > 200
              THEN [ p2 EXCEPT !.vy = @ + Mul(Mul(props.buoyancy, p2.temp), delta),
                               !.temp = CoolTemperature(@, props.thermalDecay, delta) ]
              ELSE p2
        \* Wind advection
        p4 == [ p3 EXCEPT !.vx = @ + Mul(Mul(props.wind[1], delta), 250),
                          !.vz = @ + Mul(Mul(props.wind[3], delta), 250) ]
        \* Integrate
        p5 == [ p4 EXCEPT !.x = @ + Mul(p4.vx, delta),
                          !.y = @ + Mul(p4.vy, delta),
                          !.z = @ + Mul(p4.vz, delta) ]
        \* Age
        p6 == [ p5 EXCEPT !.life = AgeLife(@, props.thermalDecay, delta) ]
        \* Ground interaction
        p7 == IF p6.y < 0 THEN GroundCollision(p6) ELSE p6
    IN  \* Respawn when dead
        IF p7.life <= 0 THEN Respawn(p7, props.blastEnergy, s) ELSE p7

AdvanceAt(st, i, props, delta, s) ==
    Store(st, i, AdvanceParticle(Load(st, i), props, delta, s))

RECURSIVE AdvanceLoop(_, _, _, _, _)
AdvanceLoop(st, i, props, delta, pick) ==
    IF i >= props.count THEN st
    ELSE AdvanceLoop(AdvanceAt(st, i, props, delta, pick[i]), i + 1, props, delta, pick)

\* Particles' useFrame callback; pick holds the Math.random() results of the
\* particles that respawn in this frame.
advance(st, props, delta, pick) == AdvanceLoop(st, 0, props, delta, pick)

\* The particles whose life reaches 0 in a frame of delta ms.
Dying(st, props, delta) ==
    { i \in 0 .. props.count - 1 : AgeLife(st.life[i], props.thermalDecay, delta) <= 0 }

\* ---------------------------------------------------------------- Debris
\* Mutant: as many bodies at stage 2 as at the later stages.
DebrisCountFlat(s) == IF s >= 2 THEN 120 ELSE 0

\* const count = stage >= 3 ? 120 : stage === 2 ? 60 : 0
DebrisCount(s) == IF s >= 3 THEN 120 ELSE IF s = 2 THEN 60 ELSE 0

\* const up = stage === 3 ? 1.0 : 0.5
DebrisUp(s) == IF s = 3 THEN SCALE ELSE 500

\* The props Scene hands to Debris.
DebrisProps(s, eScale) ==
    [ stage |-> s, count |-> DebrisCount(s),
      energy |-> Mul(PresetOf(s).blastEnergy, eScale) ]

\* new Array(n).fill(0).map(() => new THREE.Vector3())
Vectors(n) == [ k \in 0 .. n - 1 |-> << 0, 0, 0 >> ]

\* The arrays of Debris, for the bodies kept of count; hit and vPre record, per
\* body, whether the last frame's ground branch ran and the velocity it found.
AllocateDebris(count) ==
    [ positions |-> Vectors(ModelCount(count)),
      velocities |-> Vectors(ModelCount(count)),
      hit |-> [ k \in 0 .. ModelCount(count) - 1 |-> FALSE ],
      vPre |-> Vectors(ModelCount(count)) ]

\* What Math.random() returns for one body of the seeding effect.
DebrisSamples ==
    { [ a |-> 500, b |-> 0, c |-> 500, e |-> 0, f |-> 0 ],
      [ a |-> 999, b |-> 999, c |-> 0, e |-> 999, f |-> 999 ] }

\* One iteration of the seeding effect's loop.
SeedDebrisAt(st, i, up, energy, s) ==
    LET dir == Normalize(<< s.a - 500, Mul(s.b, up), s.c - 500 >>)
        v == Mul(Mul(energy, 600 + Mul(s.e, 800)), 500 + s.f)
    IN  [ st EXCEPT !.velocities[i] = VScale(dir, v),
                    !.positions[i] = << 0, 600, 0 >> ]

RECURSIVE SeedDebrisLoop(_, _, _, _, _)
SeedDebrisLoop(st, i, up, energy, pick) ==
    IF i \notin DOMAIN st.positions THEN st
    ELSE SeedDebrisLoop(SeedDebrisAt(st, i, up, energy, pick[i]), i + 1, up, energy, pick)

\* Debris' useEffect: every body is launched again from (0, 0.6, 0).
SeedDebris(st, props, pick) == SeedDebrisLoop(st, 0, DebrisUp(props.stage), props.energy, pick)

\* Whether Debris' useEffect(..., [stage, count, energy, positions, velocities])
\* runs after a re-render; the arrays change with count.
SeedDebrisDue(old, new) ==
    << old.stage, old.count, old.energy >> # << new.stage, new.count, new.energy >>

\* The ground branch of Debris' useFrame, on a body b = [p, v, hit, vPre].
DebrisCollision(b) ==
    [ b EXCEPT !.hit = TRUE,
               !.vPre = b.v,
               !.p[2] = 0,
               !.v[2] = Mul(@, -250),
               !.v[1] = Mul(@, 600),
               !.v[3] = Mul(@, 600) ]

\* One iteration of the loop of Debris' useFrame callback, on the body.
AdvanceBody(b0, delta) ==
    LET b1 == [ b0 EXCEPT !.v[2] = @ - Mul(G, delta) ]
        b2 == [ b1 EXCEPT !.p = VAdd(@, VScale(b1.v, delta)) ]
    IN  IF b2.p[2] < 0 THEN DebrisCollision(b2) ELSE b2

\* Debris' useFrame callback; without bodies there is no mesh and it returns.
advanceDebris(st, delta) ==
    LET moved == [ i \in DOMAIN st.positions |->
                     AdvanceBody([ p |-> st.positions[i], v |-> st.velocities[i],
                                   hit |-> FALSE, vPre |-> << 0, 0, 0 >> ], delta) ]
    IN  [ positions |-> [ i \in DOMAIN moved |-> moved[i].p ],
          velocities |-> [ i \in DOMAIN moved |-> moved[i].v ],
          hit |-> [ i \in DOMAIN moved |-> moved[i].hit ],
          vPre |-> [ i \in DOMAIN moved |-> moved[i].vPre ] ]

\* ------------------------------------------------------------- Shockwave
\* Mutant: the shockwave shown one stage early.
ShowsShockwaveEarly(s) == s >= 1

\* Scene: {stage >= 2 && <Shockwave triggerKey={shockKey} />}
ShowsShockwave(s) == s >= 2

\* Scene's effect: if (stage >= 2 && onExplode) onExplode(); BlastSim always
\* passes onExplode.
ExplodesOnEnter(s) == s >= 2

\* `${stage}-${effectiveEnergy.toFixed(2)}`: the stage and the energy rounded to
\* two decimals.
ShockKey(s, effectiveEnergy) == << s, Div(effectiveEnergy, 10) >>

\* Mutant: the effect without its dependency list, run after every render.
ShockwaveEffectAlways(oldKey, newKey) == TRUE

\* Whether Shockwave's useEffect(..., [triggerKey]) runs after a re-render.
ShockwaveEffectDue(oldKey, newKey) == oldKey # newKey

\* Mutant: the radius without its cap.
ShockRadiusUncapped(elapsed) == 2000 + Mul(elapsed, 12000)

\* Math.min(60, 2 + elapsed * 12), elapsed in ms
ShockRadius(elapsed) == Min(60000, 2000 + Mul(elapsed, 12000))

\* THREE.MathUtils.clamp(1.0 - elapsed * 0.6, 0, 1)
ShockAlpha(elapsed) == Clamp(SCALE - Mul(elapsed, 600), 0, SCALE)

\* opacity={0.8} of the ring's material as mounted.
MountOpacity == 800

\* ----------------------------------------------------------------- BlastSim
\* The browsers the probe may meet.
Envs ==
    { [ ctor |-> TRUE, webgl |-> TRUE, experimental |-> FALSE, throws |-> FALSE ],
      [ ctor |-> TRUE, webgl |-> FALSE, experimental |-> FALSE, throws |-> FALSE ],
      [ ctor |-> FALSE, webgl |-> FALSE, experimental |-> FALSE, throws |-> FALSE ],
      [ ctor |-> FALSE, webgl |-> FALSE, experimental |-> FALSE, throws |-> TRUE ] }

supportsWebGL(e) ==
    IF e.throws THEN FALSE
    ELSE e.ctor /\ (e.webgl \/ e.experimental)

\* The Canvas renders its children once it holds a rendering context.
RendererAvailable(e) == ~e.throws /\ (e.webgl \/ e.experimental)

\* BlastSim's render: {!webglOk ? fallback : <ErrorBoundary>..<Canvas>..}
RendersCanvas(ok) == ok

\* Mutant: a boundary that renders its children whatever its state.
RendersChildrenAlways(state) == TRUE

\* ErrorBoundary.render(): the fallback if state.hasError, else props.children.
RendersChildren(state) == ~state

\* ErrorBoundary.getDerivedStateFromError(error): { hasError: true, error }
getDerivedStateFromError(state) == TRUE

\* BlastSim({ stage = 0 }), which App renders without props.
DefaultStage == 0

Arrays ==
    [ positions |-> positions, velocities |-> velocities, temperatures |-> temperatures,
      colors |-> colors, life |-> life, size |-> size,
      hit |-> lastFrame.hit, vyPre |-> lastFrame.vyPre, respawned |-> lastFrame.respawned ]

SetArrays(st) ==
    /\ positions' = st.positions
    /\ velocities' = st.velocities
    /\ temperatures' = st.temperatures
    /\ colors' = st.colors
    /\ life' = st.life
    /\ size' = st.size
    /\ lastFrame' = [ hit |-> st.hit, vyPre |-> st.vyPre, respawned |-> st.respawned ]

DebrisArrays ==
    [ positions |-> debrisPositions, velocities |-> debrisVelocities,
      hit |-> debrisFrame.hit, vPre |-> debrisFrame.vPre ]

SetDebris(st) ==
    /\ debrisPositions' = st.positions
    /\ debrisVelocities' = st.velocities
    /\ debrisFrame' = [ hit |-> st.hit, vPre |-> st.vPre ]

particleVars == << positions, velocities, temperatures, colors, life, size, lastFrame >>
debrisVars == << debrisPositions, debrisVelocities, debrisUp, debrisFrame >>
shockVars == << shockMounted, triggerKey, t0, ringScale, opacity, shockFrame >>

\* Particles' render: the useMemo allocations and the useMemo that calls reinit.
RenderParticles(first, old, new) ==
    LET st == IF first \/ old.count # new.count THEN Allocate(new.count) ELSE Arrays
    IN  IF first \/ ReinitDue(old, new)
        THEN \E pick \in [ 0 .. new.count - 1 -> ReinitSamples ] :
                SetArrays(reinit(st, new, pick))
        ELSE SetArrays(st)

\* Debris' render: the useMemo allocations, kept while count is.
RenderDebris(first, old, new) ==
    /\ IF first \/ old.count # new.count
       THEN SetDebris(AllocateDebris(new.count))
       ELSE UNCHANGED << debrisPositions, debrisVelocities, debrisFrame >>
    /\ debrisUp' = IF first THEN 0 ELSE debrisUp

\* The Shockwave part of Scene's render; armed is the set of effects the commit
\* leaves to run.
RenderShockwave(s, key, armed) ==
    IF ShowsShockwave(s)
    THEN IF shockMounted
         THEN /\ triggerKey' = key
              /\ UNCHANGED << shockMounted, t0, ringScale, opacity, shockFrame >>
              /\ pendingEffects' =
                    armed \cup (IF ShockwaveEffectDue(triggerKey, key)
                                THEN { "Shockwave" } ELSE { })
         ELSE /\ shockMounted' = TRUE
              /\ triggerKey' = key
              /\ t0' = 0
              /\ ringScale' = SCALE
              /\ opacity' = MountOpacity
              /\ shockFrame' = NoKey
              /\ pendingEffects' = armed \cup { "Shockwave" }
    ELSE /\ shockMounted' = FALSE
         /\ triggerKey' = NoKey
         /\ t0' = 0
         /\ ringScale' = 0
         /\ opacity' = 0
         /\ shockFrame' = NoKey
         /\ pendingEffects' = armed

\* Scene's render with stage s and the panel at (eScale, dOffset).
RenderScene(first, s, eScale, dOffset) ==
    LET old == ParticleProps(stage, energyScale, dragOffset)
        new == ParticleProps(s, eScale, dOffset)
        oldDebris == DebrisProps(stage, energyScale)
        newDebris == DebrisProps(s, eScale)
    IN  /\ RenderParticles(first, old, new)
        /\ RenderDebris(first, oldDebris, newDebris)
        /\ RenderShockwave(s, ShockKey(s, new.blastEnergy),
                           (IF first \/ s # stage THEN { "Scene" } ELSE { })
                           \cup (IF first \/ SeedDebrisDue(oldDebris, newDebris)
                                 THEN { "Debris" } ELSE { }))

NoScene ==
    /\ SetArrays(Allocate(0))
    /\ SetDebris(AllocateDebris(0))
    /\ debrisUp' = 0
    /\ shockMounted' = FALSE
    /\ triggerKey' = NoKey
    /\ t0' = 0
    /\ ringScale' = 0
    /\ opacity' = 0
    /\ shockFrame' = NoKey
    /\ pendingEffects' = { }

Init ==
    /\ env \in Envs
    /\ mounted = FALSE
    /\ stage = DefaultStage
    /\ webglOk = TRUE
    /\ explodeTick = 0
    /\ probePending = FALSE
    /\ canvasRendered = FALSE
    /\ hasError = FALSE
    /\ sceneMounted = FALSE
    /\ energyScale = SCALE
    /\ dragOffset = 0
    /\ pendingEffects = { }
    /\ shockMounted = FALSE
    /\ triggerKey = NoKey
    /\ t0 = 0
    /\ ringScale = 0
    /\ opacity = 0
    /\ shockFrame = NoKey
    /\ positions = Float32Array(0)
    /\ velocities = Float32Array(0)
    /\ temperatures = Float32Array(0)
    /\ colors = Float32Array(0)
    /\ life = Float32Array(0)
    /\ size = Float32Array(0)
    /\ lastFrame = [ hit |-> Float32Array(0), vyPre |-> Float32Array(0),
                     respawned |-> Float32Array(0) ]
    /\ debrisPositions = Vectors(0)
    /\ debrisVelocities = Vectors(0)
    /\ debrisUp = 0
    /\ debrisFrame = [ hit |-> Vectors(0), vPre |-> Vectors(0) ]
    /\ now = 0
    /\ frames = 0
    /\ tock = FALSE
    /\ changes = 0
    /\ lastJump = NoJump

\* The first render of BlastSim with stage prop s, and of the Canvas's children.
Mount(s) ==
    /\ ~mounted
    /\ mounted' = TRUE
    /\ stage' = s
    /\ probePending' = TRUE
    /\ canvasRendered' = RendersCanvas(webglOk)
    /\ hasError' = FALSE
    /\ sceneMounted' = (canvasRendered' /\ RendersChildren(hasError')
                                          /\ RendererAvailable(env))
    /\ IF sceneMounted' THEN RenderScene(TRUE, s, energyScale, dragOffset) ELSE NoScene
    /\ UNCHANGED << env, webglOk, explodeTick, energyScale, dragOffset, now, frames, tock,
                    changes, lastJump >>

\* BlastSim's mount effect: setWebglOk(supportsWebGL()), and the render it causes.
ProbeEffect ==
    /\ probePending
    /\ probePending' = FALSE
    /\ webglOk' = supportsWebGL(env)
    /\ canvasRendered' = RendersCanvas(webglOk')
    \* the fallback branch unmounts the ErrorBoundary, and its state with it
    /\ hasError' = (canvasRendered' /\ hasError)
    /\ sceneMounted' = (sceneMounted /\ canvasRendered')
    /\ IF sceneMounted'
       THEN UNCHANGED << particleVars, debrisVars, shockVars, pendingEffects >>
       ELSE NoScene
    /\ UNCHANGED << env, mounted, stage, explodeTick, energyScale, dragOffset, now,
                    frames, tock, changes, lastJump >>

\* The parent renders BlastSim with another stage prop.
RenderStage(s) ==
    /\ mounted
    /\ s # stage
    /\ changes < MaxChanges
    /\ ~probePending
    /\ pendingEffects = { }
    /\ stage' = s
    /\ changes' = changes + 1
    /\ sceneMounted' = (canvasRendered /\ RendersChildren(hasError)
                                         /\ RendererAvailable(env))
    /\ IF sceneMounted'
       THEN RenderScene(~sceneMounted, s, energyScale, dragOffset)
       ELSE NoScene
    /\ UNCHANGED << env, mounted, webglOk, explodeTick, probePending, canvasRendered,
                    hasError, energyScale, dragOffset, now, frames, tock, lastJump >>

\* The Leva panel moves one of energyScale and dragOffset; Scene renders again.
SetControls(eScale, dOffset) ==
    /\ sceneMounted
    /\ (eScale # energyScale) # (dOffset # dragOffset)
    /\ changes < MaxChanges
    /\ ~probePending
    /\ pendingEffects = { }
    /\ energyScale' = eScale
    /\ dragOffset' = dOffset
    /\ changes' = changes + 1
    /\ RenderScene(FALSE, stage, eScale, dOffset)
    /\ UNCHANGED << env, mounted, stage, webglOk, explodeTick, probePending,
                    canvasRendered, hasError, sceneMounted, now, frames, tock, lastJump >>

\* The passive effects of the last commit inside the Canvas, and the renders
\* their state updates cause: Debris' seeding, Shockwave's
\* setT0(performance.now()) and Scene's onExplode, which is BlastSim's
\* setExplodeTick(t => t + 1).
FlushPassiveEffects ==
    /\ pendingEffects # { }
    /\ IF "Debris" \in pendingEffects
       THEN /\ \E pick \in [ DOMAIN debrisPositions -> DebrisSamples ] :
                  SetDebris(SeedDebris(DebrisArrays, DebrisProps(stage, energyScale), pick))
            /\ debrisUp' = DebrisUp(stage)
       ELSE UNCHANGED debrisVars
    /\ t0' = IF "Shockwave" \in pendingEffects /\ shockMounted THEN now ELSE t0
    /\ explodeTick' = IF "Scene" \in pendingEffects /\ ExplodesOnEnter(stage)
                      THEN explodeTick + 1 ELSE explodeTick
    /\ pendingEffects' =
          IF shockMounted /\ (t0' # t0 \/ explodeTick' # explodeTick)
                          /\ ShockwaveEffectDue(triggerKey, triggerKey)
          THEN { "Shockwave" } ELSE { }
    /\ UNCHANGED << env, mounted, stage, webglOk, probePending, canvasRendered,
                    hasError, sceneMounted, energyScale, dragOffset, shockMounted, triggerKey,
                    ringScale, opacity, shockFrame, particleVars, now, frames, tock, changes, lastJump >>

\* The useFrame callbacks of Particles, Debris and Shockwave, run with frame
\* delta `delta` while performance.now() returns `clock`.
RunFrame(delta, clock) ==
    /\ sceneMounted
    /\ tock' = ~tock
    /\ LET props == ParticleProps(stage, energyScale, dragOffset)
       IN  \E pick \in [ Dying(Arrays, props, delta) -> RespawnSamples ] :
              SetArrays(advance(Arrays, props, delta, pick))
    /\ SetDebris(advanceDebris(DebrisArrays, delta))
    /\ UNCHANGED debrisUp
    /\ IF shockMounted
       THEN /\ ringScale' = ShockRadius(clock - t0)
            /\ opacity' = ShockAlpha(clock - t0)
            /\ shockFrame' = << t0 >>
       ELSE UNCHANGED << ringScale, opacity, shockFrame >>
    /\ UNCHANGED << env, mounted, stage, webglOk, explodeTick, probePending,
                    canvasRendered, hasError, sceneMounted, energyScale, dragOffset,
                    pendingEffects, shockMounted, triggerKey, t0, changes, lastJump >>

\* One frame, delta ms after the last.
Frame(delta) ==
    /\ frames < MaxFrames
    /\ frames' = frames + 1
    /\ now' = now + delta
    /\ RunFrame(delta, now')

\* The frame deltas of a render loop that keeps running: each at least 1 s.
PositiveDeltas == { delta \in Deltas : delta > 0 }

\* One frame of a render loop that runs without end.  The frame counter and the
\* clock stop at the ends of their ranges; the clock is read by Shockwave alone,
\* which App's stage 0 never mounts.
Tick(delta) ==
    /\ frames' = Min(frames + 1, MaxFrames)
    /\ now' = Min(now + delta, MaxFrames * 4000)
    /\ RunFrame(delta, now')

\* A render or commit of the subtree under the ErrorBoundary throws: the
\* boundary takes getDerivedStateFromError's state and renders again, now its
\* fallback, so the Canvas and everything in it unmount.
Throw ==
    /\ canvasRendered
    /\ RendersChildren(hasError)
    /\ hasError' = getDerivedStateFromError(hasError)
    /\ sceneMounted' = FALSE
    /\ NoScene
    /\ UNCHANGED << env, mounted, stage, webglOk, explodeTick, probePending,
                    canvasRendered, energyScale, dragOffset, now, frames, tock, changes,
                    lastJump >>

\* App's handleJump(idx): its body is empty.
handleJump(idx) == UNCHANGED << env, mounted, stage, webglOk, explodeTick, probePending,
                                canvasRendered, hasError, sceneMounted, energyScale, dragOffset,
                                pendingEffects, shockVars, particleVars, debrisVars,
                                now, frames, tock, changes >>

\* Timeline: onClick={() => onJump && onJump(idx)} on entry idx of events.
Click(idx) ==
    /\ mounted
    /\ lastJump' = << idx >>
    /\ handleJump(idx)

\* BlastSim under a parent that may pass any stage prop.
Next ==
    \/ \E s \in StageProps : Mount(s)
    \/ ProbeEffect
    \/ \E s \in StageProps : RenderStage(s)
    \/ \E e \in EnergyScales, d \in DragOffsets : SetControls(e, d)
    \/ FlushPassiveEffects
    \/ \E delta \in Deltas : Frame(delta)
    \/ Throw

Spec == Init /\ [][Next]_vars

\* The page as App builds it: <BlastSim /> and <Timeline onJump={handleJump} />.
NextApp ==
    \/ Mount(DefaultStage)
    \/ ProbeEffect
    \/ FlushPassiveEffects
    \/ \E delta \in Deltas : Frame(delta)
    \/ \E idx \in 0 .. 5 : Click(idx)

SpecApp == Init /\ [][NextApp]_vars

\* The page left to run: requestAnimationFrame keeps calling the frame loop
\* for as long as the Canvas is mounted.
NextLive ==
    \/ Mount(DefaultStage)
    \/ ProbeEffect
    \/ FlushPassiveEffects
    \/ \E delta \in PositiveDeltas : Tick(delta)

\* A frame has run: of the steps of NextLive, those of Tick, which can be taken
\* whenever the scene is mounted.
FrameRuns == sceneMounted /\ tock' = ~tock

SpecLive == Init /\ [][NextLive]_vars /\ WF_tock(FrameRuns)

\* ------------------------------------------------------------------ claims
Particle == DOMAIN life
CurrentProps == ParticleProps(stage, energyScale, dragOffset)
\* A step that rendered a frame.
IsFrame == frames' = frames + 1

\* C1: for every particle, in every state reached from reinit by frames with
\* delta >= 0, collisions and respawns included, 0 <= life <= 1 and
\* 0 <= temperature <= 1.
C1_LifeTemperatureClamped ==
    \A i \in Particle :
        /\ 0 <= life[i] /\ life[i] <= SCALE
        /\ 0 <= temperatures[i] /\ temperatures[i] <= SCALE

\* A particle whose temperature has decayed all the way to 0 in a frame that
\* neither bounced nor respawned it.
C1_Witness ==
    \E i \in Particle :
        /\ frames >= 1
        /\ temperatures[i] = 0
        /\ life[i] < SCALE
        /\ ~lastFrame.hit[i]
        /\ ~lastFrame.respawned[i]

\* C2: a frame never changes the length of any per-particle array, and each
\* array holds exactly count particles: a respawn writes over the dead slot.
C2_CountInvariant ==
    /\ [](sceneMounted =>
            /\ DOMAIN positions = 0 .. CurrentProps.count * 3 - 1
            /\ DOMAIN velocities = 0 .. CurrentProps.count * 3 - 1
            /\ DOMAIN colors = 0 .. CurrentProps.count * 3 - 1
            /\ DOMAIN temperatures = 0 .. CurrentProps.count - 1
            /\ DOMAIN life = 0 .. CurrentProps.count - 1
            /\ DOMAIN size = 0 .. CurrentProps.count - 1)
    /\ [][IsFrame =>
            /\ DOMAIN positions' = DOMAIN positions
            /\ DOMAIN velocities' = DOMAIN velocities
            /\ DOMAIN colors' = DOMAIN colors
            /\ DOMAIN temperatures' = DOMAIN temperatures
            /\ DOMAIN life' = DOMAIN life
            /\ DOMAIN size' = DOMAIN size]_vars

\* The last frame respawned every particle there is.
C2_Witness ==
    /\ Particle # { }
    /\ \A i \in Particle : lastFrame.respawned[i]

\* C3 as amended: after a frame whose ground branch fired for a particle that
\* the same frame did not respawn, position.y is 0 and velocity.y has the
\* opposite sign of, and a smaller magnitude than, its value before the bounce.
C3_GroundCollision ==
    \A i \in Particle :
        (lastFrame.hit[i] /\ ~lastFrame.respawned[i]) =>
            /\ positions[i * 3 + 1] = 0
            /\ lastFrame.vyPre[i] < 0
            /\ velocities[i * 3 + 1] > 0
            /\ velocities[i * 3 + 1] < -lastFrame.vyPre[i]

\* A particle that bounced in the last frame and lives on.
C3_Witness ==
    \E i \in Particle :
        /\ lastFrame.hit[i]
        /\ ~lastFrame.respawned[i]
        /\ life[i] < SCALE

\* C3 as claimed: after any frame whose ground branch fired, position.y is 0 and
\* velocity.y is flipped and smaller.
C3_Claimed ==
    \A i \in Particle :
        lastFrame.hit[i] =>
            /\ positions[i * 3 + 1] = 0
            /\ velocities[i * 3 + 1] > 0
            /\ velocities[i * 3 + 1] < -lastFrame.vyPre[i]

\* C4 as amended: a respawn sets life to 1 and temperature to 0.8, puts the
\* particle between 0.5 and 0.7 above the plane and gives it a velocity.y that
\* is never negative, whatever the preset's anisotropy and verticalBias.
C4_Respawn ==
    \A i \in Particle :
        lastFrame.respawned[i] =>
            /\ life[i] = SCALE
            /\ temperatures[i] = 800
            /\ positions[i * 3 + 1] >= 500
            /\ positions[i * 3 + 1] <= 700
            /\ velocities[i * 3 + 1] >= 0

\* A respawn under a preset whose construction can seed a downward velocity.
C4_Witness ==
    \E i \in Particle :
        /\ lastFrame.respawned[i]
        /\ CurrentProps.verticalBias < 500
        /\ velocities[i * 3 + 1] > 0

\* C4 as claimed: a respawn seeds life = 1 and temperature = 1, as construction.
C4_Claimed ==
    \A i \in Particle :
        lastFrame.respawned[i] => (life[i] = SCALE /\ temperatures[i] = SCALE)

\* What construction with props puts into slot i for the draws s.
Seeded(i, props, s) == Load(ReinitAt(Allocate(props.count), i, props, s), i)

\* C5: a change of the stage index reseeds every particle before the next
\* frame: life = 1, temperature = 1, and position, velocity, colour and size
\* are those of a construction from the new preset, with nothing kept.
C5_StageSwitchReseeds ==
    [][(stage' # stage /\ sceneMounted') =>
          LET props == ParticleProps(stage', energyScale', dragOffset')
              built == Allocate(props.count)
          IN  /\ DOMAIN life' = DOMAIN built.life
              /\ DOMAIN positions' = DOMAIN built.positions
              /\ \A i \in DOMAIN life' :
                    /\ life'[i] = SCALE
                    /\ temperatures'[i] = SCALE
                    /\ \E s \in ReinitSamples :
                          LET q == Seeded(i, props, s)
                              j == i * 3
                          IN  /\ << positions'[j], positions'[j + 1], positions'[j + 2] >>
                                    = << q.x, q.y, q.z >>
                              /\ << velocities'[j], velocities'[j + 1], velocities'[j + 2] >>
                                    = << q.vx, q.vy, q.vz >>
                              /\ size'[i] = 20000 + Mul(s.sz, 25000)
                              /\ << colors'[j], colors'[j + 1], colors'[j + 2] >>
                                    = Lerp(props.colorsPair[1], props.colorsPair[2], s.t)]_vars

\* Just after a stage change that followed frames in which time passed.
C5_Witness ==
    /\ changes >= 1
    /\ now > 0
    /\ "Scene" \in pendingEffects
    /\ Particle # { }
    /\ \A i \in Particle : life[i] = SCALE /\ ~lastFrame.respawned[i]

\* C6 as claimed: a click on timeline entry idx, which calls onJump(idx), sets
\* the simulation's stage index to idx.
C6_JumpSetsStage == lastJump # NoJump => stage = lastJump[1]

\* C7 as claimed: play that starts at stage 0 is at stage 1 once 1200 ms have
\* passed and at stage 3 once 3200 ms have passed.
C7_AutoPlaySchedule ==
    sceneMounted =>
        /\ (now >= 1200 => stage >= 1)
        /\ (now >= 3200 => stage >= 3)

\* a is b to within 0.05
Approx(a, b) == Abs(a - b) * 20 <= SCALE

\* C8 as amended: a render with an unchanged trigger key never arms the
\* Shockwave's effect, while a mount or a new key does; t0 changes only when the
\* armed effect runs, and then to now; and a frame at elapsed = 0 computes
\* radius 2 and opacity 1.
C8_ShockwaveRearm ==
    [][/\ (shockMounted /\ shockMounted' /\ triggerKey' = triggerKey)
              => ("Shockwave" \in pendingEffects' => "Shockwave" \in pendingEffects)
       /\ (shockMounted' /\ (~shockMounted \/ triggerKey' # triggerKey))
              => "Shockwave" \in pendingEffects'
       /\ (shockMounted /\ shockMounted' /\ t0' # t0)
              => ("Shockwave" \in pendingEffects /\ t0' = now)
       /\ (shockMounted /\ shockMounted' /\ "Shockwave" \in pendingEffects
                        /\ pendingEffects' = { })
              => t0' = now
       /\ (IsFrame /\ shockMounted /\ now' = t0)
              => (ringScale' = 2 * SCALE /\ opacity' = SCALE)]_vars

\* A frame has just run at the very time a new key reset t0, after earlier
\* frames had let the ring grow.
C8_Witness ==
    /\ shockMounted
    /\ changes >= 1
    /\ t0 > 0
    /\ now = t0
    /\ pendingEffects = { }
    /\ ringScale = 2 * SCALE
    /\ opacity = SCALE

\* C8 as claimed: the frame computed at elapsed = 0 gives radius about 2 and
\* opacity about 0.8.
C8_Claimed ==
    [][(IsFrame /\ shockMounted /\ now' = t0)
          => (Approx(ringScale', 2 * SCALE) /\ Approx(opacity', 800))]_vars

\* C9: while the stage index is 0 or 1 no Shockwave is mounted, and onExplode
\* (which raises explodeTick) fires only on entering a stage >= 2.
C9_NoEffectsBeforeSurge ==
    /\ [](stage < 2 => ~shockMounted)
    /\ [][explodeTick' # explodeTick => stage >= 2]_vars

\* Stage 0 or 1 entered from an explosive stage, its effects run.
C9_Witness ==
    /\ sceneMounted
    /\ stage < 2
    /\ changes >= 1
    /\ explodeTick >= 1
    /\ pendingEffects = { }
    /\ frames >= 1

\* C10 as claimed: where supportsWebGL() returns false, no render of BlastSim
\* returns the Canvas branch.
C10_NoCanvasWithoutWebGL == (mounted /\ ~supportsWebGL(env)) => ~canvasRendered

Body == DOMAIN debrisPositions

\* C12: the debris count depends on the stage alone: none below stage 2, some at
\* stage 2 but fewer than at any stage >= 3, never more than 160; the arrays
\* hold the bodies of that count, and a frame does not change their number.
C12_DebrisCount ==
    /\ [](sceneMounted =>
            /\ (stage < 2 => DebrisCount(stage) = 0)
            /\ (stage = 2 =>
                    /\ DebrisCount(stage) > 0
                    /\ \A s \in StageProps : s >= 3 => DebrisCount(stage) < DebrisCount(s))
            /\ (stage >= 3 => DebrisCount(stage) > DebrisCount(2))
            /\ DebrisCount(stage) <= 160
            /\ Body = 0 .. ModelCount(DebrisCount(stage)) - 1
            /\ DOMAIN debrisVelocities = Body)
    /\ [][IsFrame =>
            /\ DOMAIN debrisPositions' = DOMAIN debrisPositions
            /\ DOMAIN debrisVelocities' = DOMAIN debrisVelocities]_vars

\* Stage 2 with its bodies launched and a frame run since.
C12_Witness ==
    /\ sceneMounted
    /\ stage = 2
    /\ debrisUp # 0
    /\ frames >= 1
    /\ \E i \in Body : debrisPositions[i] # << 0, 600, 0 >>

\* C13 as claimed: at every stage >= 3 the bodies were launched with the up
\* bias of stage 3, which is not that of stage 2.
C13_DebrisUpBias ==
    (sceneMounted /\ stage >= 3 /\ debrisUp # 0 /\ "Debris" \notin pendingEffects) =>
        /\ debrisUp = DebrisUp(3)
        /\ debrisUp # DebrisUp(2)

\* C17 as claimed: a body that went below the plane in a frame ends the frame
\* with position.y = 0, velocity.y times -0.28 and velocity.x and .z times 0.65.
C17_DebrisCollision ==
    \A i \in Body :
        debrisFrame.hit[i] =>
            /\ debrisPositions[i][2] = 0
            /\ debrisVelocities[i][2] = Mul(debrisFrame.vPre[i][2], -280)
            /\ debrisVelocities[i][1] = Mul(debrisFrame.vPre[i][1], 650)
            /\ debrisVelocities[i][3] = Mul(debrisFrame.vPre[i][3], 650)

\* The stage prop brought into 0 .. 5.
Clamped == IF stage < 0 THEN 0 ELSE IF stage > 5 THEN 5 ELSE stage

\* C14: whatever integer the stage prop is, the scene is built from the preset
\* of the clamped index: the parameters Particles gets and its count, the
\* debris count and up bias and the presence of the shockwave are those of the
\* clamped stage.
C14_StageClamped ==
    sceneMounted =>
        LET preset == STAGE_PRESETS[Clamped]
            props == CurrentProps
        IN  /\ props.blastEnergy = Mul(preset.blastEnergy, energyScale)
            /\ props.drag = Max(0, preset.drag + dragOffset)
            /\ << props.wind, props.buoyancy, props.anisotropyUp, props.anisotropyXZ,
                  props.verticalBias, props.thermalDecay, props.colorsPair >>
                 = << preset.wind, preset.buoyancy, preset.anisotropyUp, preset.anisotropyXZ,
                      preset.verticalBias, preset.thermalDecay, preset.colors >>
            /\ Particle = 0 .. ModelCount(preset.count) - 1
            /\ Body = 0 .. ModelCount(DebrisCount(Clamped)) - 1
            /\ (debrisUp # 0 /\ "Debris" \notin pendingEffects) => debrisUp = DebrisUp(Clamped)
            /\ shockMounted = (Clamped >= 2)

\* A scene built for a stage prop beyond the table, its effects run and a
\* frame rendered.
C14_Witness ==
    /\ sceneMounted
    /\ stage > 5
    /\ shockMounted
    /\ debrisUp # 0
    /\ pendingEffects = { }
    /\ frames >= 1

\* C15: every frame of a mounted shockwave reads an elapsed time >= 0 and sets
\* radius = min(60, 2 + 12 * elapsed) and opacity = clamp(1 - 0.6 * elapsed, 0, 1),
\* both within [2, 60] and [0, 1]; from one frame to the next with the same
\* start time the radius does not decrease and the opacity does not increase.
C15_ShockwaveCurve ==
    [][(IsFrame /\ shockMounted) =>
          LET elapsed == now' - t0
              fade == (elapsed * 6) \div 10
          IN  /\ elapsed >= 0
              /\ ringScale' = (IF 2 * SCALE + 12 * elapsed > 60 * SCALE
                               THEN 60 * SCALE ELSE 2 * SCALE + 12 * elapsed)
              /\ ringScale' >= 2 * SCALE /\ ringScale' <= 60 * SCALE
              /\ opacity' >= 0 /\ opacity' <= SCALE
              /\ opacity' = (IF fade > SCALE THEN 0 ELSE SCALE - fade)
              /\ (shockFrame = << t0 >>) =>
                    (ringScale' >= ringScale /\ opacity' <= opacity)]_vars

\* Three seconds or more into a shockwave, after two frames that read the same
\* start time: the ring is still growing and has faded out.
C15_Witness ==
    /\ shockMounted
    /\ shockFrame = << t0 >>
    /\ frames >= 2
    /\ now - t0 >= 3000
    /\ ringScale > 30 * SCALE
    /\ opacity = 0

\* C16: in a frame that does not respawn it, a particle's temperature does not
\* increase: it takes the decay max(0, T - thermalDecay * delta) if the particle
\* was above 0.2 when the frame began, then the factor 0.7 if the frame's
\* ground branch ran, and keeps its value if neither applies.
C16_TemperatureDecays ==
    [][IsFrame =>
          \A i \in Particle :
              ~lastFrame'.respawned[i] =>
                  LET T == temperatures[i]
                      loss == (CurrentProps.thermalDecay * (now' - now)) \div SCALE
                      cooled == IF positions[i * 3 + 1] > 200
                                THEN (IF T - loss < 0 THEN 0 ELSE T - loss)
                                ELSE T
                  IN  /\ temperatures'[i] <= T
                      /\ temperatures'[i] =
                            (IF lastFrame'.hit[i] THEN Mul(cooled, 700) ELSE cooled)]_vars

\* A particle that has cooled in the air, then bounced, and was never respawned.
C16_Witness ==
    \E i \in Particle :
        /\ frames >= 2
        /\ lastFrame.hit[i]
        /\ ~lastFrame.respawned[i]
        /\ temperatures[i] > 0
        /\ temperatures[i] < 700

\* C18: if frames with a delta of at least one second keep coming, every
\* particle of the mounted scene is respawned, its life back at 1, again and
\* again without end; and every such frame lowers the life of each particle it
\* does not respawn.
C18_EventuallyRespawned ==
    /\ \A i \in 0 .. MaxCount - 1 :
          []<>((sceneMounted /\ i \in Particle) =>
                  (lastFrame.respawned[i] /\ life[i] = SCALE))
    /\ [][(tock' # tock) =>
            \A i \in Particle : lastFrame'.respawned[i] \/ life'[i] < life[i]]_vars

\* A particle respawned by a frame later than the run's first two.
C18_Witness ==
    \E i \in Particle :
        /\ sceneMounted
        /\ lastFrame.respawned[i]
        /\ life[i] = SCALE
        /\ frames = MaxFrames
        /\ now >= MaxFrames * 3000

\* C19: after reinit and after every frame, every particle has position.y >= 0,
\* whether the frame ended with the integration, a bounce or a respawn.
C19_AboveGround == \A i \in Particle : positions[i * 3 + 1] >= 0

\* A particle that the last frame took below the plane and put back on it.
C19_Witness ==
    \E i \in Particle :
        /\ frames >= 1
        /\ lastFrame.hit[i]
        /\ lastFrame.vyPre[i] < 0
        /\ positions[i * 3 + 1] = 0

\* C20: a render of the mounted scene reseeds the particles exactly when
\* count, the effective blastEnergy, anisotropyUp, anisotropyXZ, verticalBias, the
\* colour pair or the stage is new; otherwise, as when only dragOffset moved,
\* every particle array is left as it was and the next frames read the new drag.
C20_ReseedOnDeps ==
    [][(sceneMounted /\ sceneMounted' /\ tock' = tock) =>
          LET old == CurrentProps
              new == ParticleProps(stage', energyScale', dragOffset')
              same == /\ old.count = new.count
                      /\ old.blastEnergy = new.blastEnergy
                      /\ old.anisotropyUp = new.anisotropyUp
                      /\ old.anisotropyXZ = new.anisotropyXZ
                      /\ old.verticalBias = new.verticalBias
                      /\ old.colorsPair = new.colorsPair
                      /\ old.stage = new.stage
          IN  /\ same => particleVars' = particleVars
              /\ ~same =>
                    \A i \in DOMAIN life' :
                        /\ life'[i] = SCALE
                        /\ temperatures'[i] = SCALE
                        /\ ~lastFrame'.hit[i] /\ ~lastFrame'.respawned[i]
                        /\ \E q \in ReinitSamples :
                              Load(Arrays', i) = Seeded(i, new, q)
              /\ new.drag = Max(0, PresetOf(stage').drag + dragOffset')]_vars

\* The drag override has moved and a particle aged by a frame is still as the
\* frames left it.
C20_Witness ==
    /\ sceneMounted
    /\ dragOffset # 0
    /\ energyScale = SCALE
    /\ changes >= 1
    /\ frames >= 1
    /\ \E i \in Particle : life[i] < SCALE /\ ~lastFrame.respawned[i]

====
